---- MODULE Spec2Model ----
(***************************************************************************)
(* Model of business_data_analysis_chatbot_agent_langchain.py:             *)
(*   - the ETL load loop that fills the rentals table (lines 181-210);     *)
(*   - the session store, the 10-message window and the history wrapper    *)
(*     (lines 246-256, 353-358);                                           *)
(*   - the tool-calling loop `agent` (lines 361-386) and the presentation  *)
(*     layer's `run` (lines 423-439).                                      *)
(* Strings are sequences of one-character strings, so that len(), the      *)
(* f-string padding, += on chunks and ''.join are computed, not assumed.   *)
(***************************************************************************)
EXTENDS Integers, Sequences, FiniteSets, TLC

VARIABLES
    \* ---- ETL ----
    dataset,      \* the source rows (load_dataset(...)["train"]), fixed by Init
    etl_pc,       \* "loading" | "broke" (break at 209-210) | "exhausted" (range ended)
    i,            \* index of the next source row to examine (1-based)
    row_count,    \* row_count of line 181
    rentals,      \* the rentals table: sequence of inserted rows, in id order
    \* ---- chat ----
    store,        \* store of line 246: session id -> sequence of messages
    pc,           \* "idle" | "model" | "tools" | "done" | "failed"
    messages,     \* agent's local `messages`: input of the next model call
    response,     \* agent's local `response`: accumulated AIMessageChunk (or None)
    callIdx,      \* position in response.tool_calls of the call being handled
    context,      \* the message list of the last request sent to the model
    result,       \* run's `result` list, joined: the text the form displays
    invoked,      \* names of the tools invoked in the current turn, in order
    modelCalls,   \* number of model calls completed in the current turn
    produced,     \* messages created in the current turn, in order of creation
    added,        \* number of messages handed to the history's add_messages so far
    nextSeq       \* number of message objects created so far (object identity)

etlVars == <<dataset, etl_pc, i, row_count, rentals>>
chatVars == <<store, pc, messages, response, callIdx, context, result, invoked,
              modelCalls, produced, added, nextSeq>>
vars == <<dataset, etl_pc, i, row_count, rentals, store, pc, messages, response,
          callIdx, context, result, invoked, modelCalls, produced, added, nextSeq>>

\* Python's optional values: None is the empty sequence, a present value v
\* is the one-element sequence <<v>>.
None == << >>
Some(v) == <<v>>

(***************************************************************************)
(* Bounds of the model.                                                    *)
(***************************************************************************)
\* Longest source dataset explored.
MaxRows == 3
\* The accepted-row limit of line 209.  The program's value is 10000; the
\* model runs the same loop with the limit scaled down so that datasets
\* longer than the limit can be enumerated.
RowLimit == 2

(***************************************************************************)
(* ETL: geo lookup and source rows                                         *)
(***************************************************************************)
Z01012 == <<"0", "1", "0", "1", "2">>
Z07302 == <<"0", "7", "3", "0", "2">>
Z00501 == <<"0", "0", "5", "0", "1">>

\* zipHash of lines 137-144: zip -> city/county/state.  Its keys are the
\* zipcode column of the geo CSV: 5-digit, zero-padded strings.
zipHash ==
    [z \in {Z01012, Z07302, Z00501} |->
        IF z = Z01012 THEN [city |-> "Blandford", county |-> "Hampden", state |-> "MA"]
        ELSE IF z = Z07302 THEN [city |-> "Jersey City", county |-> "Hudson", state |-> "NJ"]
        ELSE [city |-> "Holtsville", county |-> "Suffolk", state |-> "NY"]]

\* zipHash.get(zip): the record, or None
zipHashGet(zip) == IF zip \in DOMAIN zipHash THEN Some(zipHash[zip]) ELSE None

\* Values of row["Region"] in the source: a zip without its leading zero, a
\* full zip, a zip no geo record knows, and a zip that lost two zeros.
Regions ==
    { <<"1", "0", "1", "2">>,
      Z07302,
      <<"9", "9", "9", "9", "9">>,
      <<"5", "0", "1">> }

SourceRows ==
    [RegionType : {0, 1},
     Rent : {None, Some(1200)},
     Region : Regions,
     HomeType : {0},
     Date : {738000},
     RentAdj : {1210}]

RECURSIVE SeqsUpTo(_, _)
\* all sequences over S of length at most n
SeqsUpTo(S, n) ==
    IF n = 0 THEN {<<>>}
    ELSE LET shorter == SeqsUpTo(S, n - 1)
         IN shorter \cup {Append(s, x) : s \in {t \in shorter : Len(t) = n - 1}, x \in S}

\* row["Date"].isoformat(): the date rendered as text (opaque beyond its tag)
IsoFormat(d) == <<"iso", d>>

\* Mutant of NormalizeZip: the length test is off by one (<= 5).
NormalizeZipOffByOne(region) == IF Len(region) <= 5 THEN <<"0">> \o region ELSE region

\* line 188: zip = f"0{row['Region']}" if len(row["Region"]) < 5 else row["Region"]
NormalizeZip(region) == IF Len(region) < 5 THEN <<"0">> \o region ELSE region

\* Mutant of Filtered: `and` in place of `or`.
FilteredAnd(row) == row.RegionType # 0 /\ row.Rent = None

\* line 185: the row filter (TRUE = `continue`)
Filtered(row) == row.RegionType # 0 \/ row.Rent = None

\* lines 194-206: the inserted row; id is the table's AUTOINCREMENT key
InsertedRow(row, zip, geo, id) ==
    [id |-> id, zip |-> zip, city |-> geo.city, county |-> geo.county,
     state |-> geo.state, home_type |-> row.HomeType, date |-> IsoFormat(row.Date),
     rent |-> row.Rent, rent_adjusted |-> row.RentAdj]

\* Mutant of LimitReached: > in place of >=.
LimitReachedLate(n) == n > RowLimit

\* line 209: if row_count >= 10000: break
LimitReached(n) == n >= RowLimit

(***************************************************************************)
(* Chat: messages, session store, window, history wrapper                  *)
(***************************************************************************)
\* Most message objects created in one behaviour of Spec, which explores every
\* kind of model response and tool outcome over a few turns.
MaxMsgs == 8
\* Most message objects created in one behaviour of SpecLong, which explores
\* fewer kinds of response over enough turns to fill and overflow the window.
MaxMsgsLong == 13

\* line 256: input["messages"][-10:]
Window == 10

\* line 358: config = {"configurable": {"session_id": "cat"}}
SessionId == "cat"

\* lines 315-334: the fixed system prompt, wrapped by the template (line 337)
SystemMessage == [type |-> "system", content |-> <<"S">>, tool_calls |-> << >>,
                  tool_call_id |-> None, seq |-> 0]

\* line 426: HumanMessage(message)
HumanMessage(text, seq) ==
    [type |-> "human", content |-> text, tool_calls |-> << >>,
     tool_call_id |-> None, seq |-> seq]

\* line 382: ToolMessageChunk(output, tool_call_id=call["id"])
ToolMessageChunk(output, id, seq) ==
    [type |-> "tool", content |-> output, tool_calls |-> << >>,
     tool_call_id |-> Some(id), seq |-> seq]

\* lines 304-311: the names registered in toolsHash
toolsHash ==
    {"query_sql_database_tool", "info_sql_database_tool", "list_sql_database_tool",
     "query_sql_checker_tool", "get_current_datetime", "get_time_series_prediction"}

\* Mutant of toolsHashGet: a name that is not registered falls back to a tool.
toolsHashGetDefault(name) ==
    IF name \in toolsHash THEN Some(name) ELSE Some("get_current_datetime")

\* line 379: toolsHash.get(call["name"]): the tool, or None
toolsHashGet(name) == IF name \in toolsHash THEN Some(name) ELSE None

\* lines 249-252: get_session_history creates the session on first reference;
\* the value is the store afterwards
get_session_history(st, id) ==
    IF id \in DOMAIN st THEN st
    ELSE [k \in DOMAIN st \cup {id} |-> IF k = id THEN << >> ELSE st[k]]

\* Python's s[-n:]
LastN(s, n) == IF Len(s) <= n THEN s ELSE SubSeq(s, Len(s) - n + 1, Len(s))

\* Mutant of limit: the window is one message too long.
limitEleven(msgs) == LastN(msgs, Window + 1)

\* lines 255-256: limit keeps the most recent 10 messages
limit(msgs) == LastN(msgs, Window)

\* lines 336-338: the template puts the system prompt before the messages
template(msgs) == <<SystemMessage>> \o msgs

\* lines 354-356: RunnableWithMessageHistory with input_messages_key="messages"
\* and no history key hands the chain the stored history followed by the
\* input messages
EnterHistory(hist, input) == hist \o input

\* Mutant of ExitHistory: the stored messages are not cut from the chain's
\* input before it is saved.
ExitHistoryAll(hist, full, output) == hist \o full \o <<output>>

\* lines 354-356: when the chain ends, the wrapper appends to the history the
\* chain's input messages beyond the stored ones, then the output message
ExitHistory(hist, full, output) ==
    hist \o SubSeq(full, Len(hist) + 1, Len(full)) \o <<output>>

\* Mutant of AddChunk: the operands of += are swapped.
AddChunkSwapped(a, b) ==
    [content |-> b.content \o a.content, tool_calls |-> b.tool_calls \o a.tool_calls]

\* lines 371-374: response += chunk (content and tool calls are concatenated)
AddChunk(a, b) ==
    [content |-> a.content \o b.content, tool_calls |-> a.tool_calls \o b.tool_calls]

RECURSIVE Accumulate(_, _, _)
\* lines 365-374: response after chunks k..Len(stream); None before the first
Accumulate(stream, k, acc) ==
    IF k > Len(stream) THEN acc
    ELSE Accumulate(stream, k + 1,
                    IF acc = None THEN Some(stream[k]) ELSE Some(AddChunk(acc[1], stream[k])))

\* lines 436-437: if chunk.content: result.append(chunk.content); the list is
\* kept joined (line 439)
RunCollect(res, content) == IF content # << >> THEN res \o content ELSE res

RECURSIVE RunCollectAll(_, _, _)
\* lines 430-437 over the chunks k..Len(stream) of one model response
RunCollectAll(res, stream, k) ==
    IF k > Len(stream) THEN res
    ELSE RunCollectAll(RunCollect(res, stream[k].content), stream, k + 1)

\* Mutant of CollectToolMessage: the message is inserted at the front.
CollectToolMessageFront(msgs, m) == <<m>> \o msgs

\* line 384: messages.append(tool_message)
CollectToolMessage(msgs, m) == Append(msgs, m)

\* The message the history records for an accumulated response; the ids of
\* its tool calls are unique to the response (the model API issues them).
AIMessage(resp, seq) ==
    [type |-> "ai", content |-> resp.content,
     tool_calls |-> [k \in 1..Len(resp.tool_calls) |->
                        [name |-> resp.tool_calls[k], id |-> <<seq, k>>]],
     tool_call_id |-> None, seq |-> seq]

\* What the model can stream back: sequences of chunks, each with a piece of
\* text and the tool calls it completes.
Chunk(text, calls) == [content |-> text, tool_calls |-> calls]
UnknownTool == "multi_tool_use.parallel"
Streams ==
    { <<Chunk(<<"a">>, << >>)>>,
      <<Chunk(<<"a">>, << >>), Chunk(<< >>, << >>), Chunk(<<"b">>, << >>)>>,
      <<Chunk(<< >>, <<"list_sql_database_tool">>)>>,
      <<Chunk(<<"t">>, <<"list_sql_database_tool">>),
        Chunk(<< >>, <<"query_sql_database_tool">>)>>,
      <<Chunk(<< >>, <<UnknownTool, "get_current_datetime">>)>>,
      <<Chunk(<< >>, <<UnknownTool>>)>> }

\* The responses SpecLong draws from: plain text, text with two registered
\* calls, and a call to an unregistered tool.
StreamsLong ==
    { <<Chunk(<<"a">>, << >>), Chunk(<< >>, << >>), Chunk(<<"b">>, << >>)>>,
      <<Chunk(<<"t">>, <<"list_sql_database_tool">>),
        Chunk(<< >>, <<"query_sql_database_tool">>)>>,
      <<Chunk(<< >>, <<UnknownTool>>)>> }

\* What a tool can return (line 381): some text, or the empty string
ToolOutputs == { <<"o">>, << >> }
ToolOutputsLong == { <<"o">> }

\* What the user can type (line 446)
UserInputs == { <<"q">> }

ChatInit ==
    /\ store = [id \in {} |-> << >>]
    /\ pc = "idle"
    /\ messages = << >>
    /\ response = None
    /\ callIdx = 0
    /\ context = << >>
    /\ result = << >>
    /\ invoked = << >>
    /\ modelCalls = 0
    /\ produced = << >>
    /\ added = 0
    /\ nextSeq = 0

InitETL ==
    /\ dataset \in SeqsUpTo(SourceRows, MaxRows)
    /\ etl_pc = "loading"
    /\ i = 1
    /\ row_count = 0
    /\ rentals = << >>
    /\ ChatInit

\* lines 185-186: region type is not 0 or the smoothed rent is null -> continue
ETLSkipFiltered ==
    /\ etl_pc = "loading"
    /\ i <= Len(dataset)
    /\ Filtered(dataset[i])
    /\ i' = i + 1
    /\ UNCHANGED <<dataset, etl_pc, row_count, rentals>>
    /\ UNCHANGED chatVars

\* lines 188-192: no geo record for the normalized zip -> continue
ETLSkipNoGeo ==
    /\ etl_pc = "loading"
    /\ i <= Len(dataset)
    /\ ~Filtered(dataset[i])
    /\ zipHashGet(NormalizeZip(dataset[i].Region)) = None
    /\ i' = i + 1
    /\ UNCHANGED <<dataset, etl_pc, row_count, rentals>>
    /\ UNCHANGED chatVars

\* lines 188-210: insert the row, count it, break at the limit
ETLInsert ==
    /\ etl_pc = "loading"
    /\ i <= Len(dataset)
    /\ ~Filtered(dataset[i])
    /\ LET zip == NormalizeZip(dataset[i].Region)
           geo == zipHashGet(zip)
       IN /\ geo # None
          /\ rentals' = Append(rentals, InsertedRow(dataset[i], zip, geo[1], Len(rentals) + 1))
    /\ row_count' = row_count + 1
    /\ IF LimitReached(row_count')
       THEN etl_pc' = "broke" /\ i' = i
       ELSE etl_pc' = "loading" /\ i' = i + 1
    /\ UNCHANGED dataset
    /\ UNCHANGED chatVars

\* line 182: range(len(dataset)) is exhausted
ETLExhausted ==
    /\ etl_pc = "loading"
    /\ i > Len(dataset)
    /\ etl_pc' = "exhausted"
    /\ UNCHANGED <<dataset, i, row_count, rentals>>
    /\ UNCHANGED chatVars

NextETL == ETLSkipFiltered \/ ETLSkipNoGeo \/ ETLInsert \/ ETLExhausted

SpecETL == InitETL /\ [][NextETL]_vars

(***************************************************************************)
(* ETL properties                                                          *)
(***************************************************************************)
\* Number of source rows the loop has finished with.
Examined == IF etl_pc = "broke" THEN i ELSE i - 1
ExaminedRows == SubSeq(dataset, 1, Examined)

\* A source row the load is meant to keep: zip-level, rent present, zip known.
Acceptable(row) ==
    /\ row.RegionType = 0
    /\ row.Rent # None
    /\ NormalizeZip(row.Region) \in DOMAIN zipHash

\* C4: a source row whose region type is not 0, whose smoothed rent is null or
\* whose normalized zip has no geo record is never inserted: the table holds
\* exactly one row per examined source row that has region type 0, a rent and
\* a known zip, in source order, and nothing else.
C4_OnlyAcceptableRowsStored ==
    LET acc == SelectSeq(ExaminedRows, Acceptable)
    IN /\ Len(rentals) = Len(acc)
       /\ \A k \in 1..Len(rentals) :
            /\ rentals[k].zip = NormalizeZip(acc[k].Region)
            /\ rentals[k].zip \in DOMAIN zipHash
            /\ rentals[k].rent = acc[k].Rent
            /\ rentals[k].rent # None
            /\ acc[k].RegionType = 0

\* C4 witness: a load that met a row of each rejected kind (wrong region type,
\* null rent, unknown zip), finished, and stored none of them.
C4_Witness ==
    /\ etl_pc = "exhausted"
    /\ Len(dataset) = 3
    /\ \E j \in 1..3 : dataset[j].RegionType # 0 /\ dataset[j].Rent # None
                        /\ dataset[j].Region = Z07302
    /\ \E j \in 1..3 : dataset[j].RegionType = 0 /\ dataset[j].Rent = None
                        /\ dataset[j].Region = Z07302
    /\ \E j \in 1..3 : dataset[j].RegionType = 0 /\ dataset[j].Rent # None
                        /\ dataset[j].Region \notin DOMAIN zipHash
                        /\ Len(dataset[j].Region) = 5
    /\ rentals = << >>

\* C5: the table never holds more rows than the limit; the number of stored
\* rows equals row_count; the load stops exactly at the row that brings the
\* count to the limit, and once stopped no step examines or inserts a row.
C5_StoreBounded ==
    /\ Len(rentals) <= RowLimit
    /\ Len(rentals) = row_count
    /\ (row_count >= RowLimit) <=> (etl_pc = "broke")
    /\ etl_pc = "broke" =>
         /\ Acceptable(dataset[i])
         /\ Len(SelectSeq(SubSeq(dataset, 1, i), Acceptable)) = RowLimit
         /\ ~ENABLED NextETL

\* C5 witness: the load stopped at the limit with an acceptable row still
\* ahead in the source.
C5_Witness ==
    /\ etl_pc = "broke"
    /\ Len(rentals) = RowLimit
    /\ i < Len(dataset)
    /\ Acceptable(dataset[i + 1])

\* A source row that should be stored, with the padding rule spelled out: a
\* 4-character region whose zero-prefixed form is a known zip, or a
\* 5-character region that is a known zip.
PaddedKnown(row) ==
    /\ row.RegionType = 0
    /\ row.Rent # None
    /\ \/ Len(row.Region) = 4 /\ (<<"0">> \o row.Region) \in DOMAIN zipHash
       \/ Len(row.Region) = 5 /\ row.Region \in DOMAIN zipHash

\* C6: every stored zip has 5 characters; a 4-character source region is
\* stored with one leading zero added, a 5-character region unchanged.
C6_ZipNormalized ==
    LET src == SelectSeq(ExaminedRows, PaddedKnown)
    IN /\ Len(rentals) = Len(src)
       /\ \A k \in 1..Len(rentals) :
            /\ Len(rentals[k].zip) = 5
            /\ Len(src[k].Region) = 4 => rentals[k].zip = <<"0">> \o src[k].Region
            /\ Len(src[k].Region) = 5 => rentals[k].zip = src[k].Region

\* C6 witness: "1012" was stored as "01012" and "07302" as "07302", after a
\* 3-character region had been passed over.
C6_Witness ==
    /\ Len(dataset) = 3
    /\ dataset[1].Region = <<"5", "0", "1">> /\ ~Filtered(dataset[1])
    /\ dataset[2].Region = <<"1", "0", "1", "2">>
    /\ dataset[3].Region = Z07302
    /\ Len(rentals) = 2
    /\ rentals[1].zip = Z01012
    /\ rentals[2].zip = Z07302

ETLDone ==
    /\ dataset = << >>
    /\ etl_pc = "exhausted"
    /\ i = 1
    /\ row_count = 0
    /\ rentals = << >>

Init == ETLDone /\ ChatInit

\* lines 449-452, 423-429: a non-empty query is submitted and run() starts the
\* agent with the one human message (line 362)
Submit(text, cap) ==
    /\ pc \in {"idle", "done", "failed"}
    /\ text # << >>
    /\ nextSeq + 2 <= cap
    /\ LET m == HumanMessage(text, nextSeq + 1)
       IN /\ messages' = <<m>>
          /\ produced' = <<m>>
    /\ nextSeq' = nextSeq + 1
    /\ result' = << >>
    /\ response' = None
    /\ callIdx' = 0
    /\ invoked' = << >>
    /\ modelCalls' = 0
    /\ pc' = "model"
    /\ UNCHANGED <<store, context, added>>
    /\ UNCHANGED etlVars

\* lines 364-377, 385-386 with 353-356 and 430-437: one pass of the loop up to
\* the inspection of the response's tool calls
ModelCall(stream, cap) ==
    /\ pc = "model"
    /\ stream # << >>
    /\ LET resp == Accumulate(stream, 1, None)[1]
           ncalls == Len(resp.tool_calls)
           st == get_session_history(store, SessionId)
           hist == st[SessionId]
           full == EnterHistory(hist, messages)
           ai == AIMessage(resp, nextSeq + 1)
           saved == ExitHistory(hist, full, ai)
       IN /\ ncalls = 0 \/ nextSeq + ncalls + 2 <= cap
          /\ context' = template(limit(full))
          /\ response' = Some(ai)
          /\ result' = RunCollectAll(result, stream, 1)
          /\ store' = [st EXCEPT ![SessionId] = saved]
          /\ added' = added + (Len(full) - Len(hist)) + 1
          /\ produced' = Append(produced, ai)
          /\ IF ncalls # 0
             THEN /\ messages' = << >>
                  /\ callIdx' = 1
                  /\ pc' = "tools"
             ELSE /\ messages' = messages
                  /\ callIdx' = 0
                  /\ pc' = "done"
    /\ nextSeq' = nextSeq + 1
    /\ modelCalls' = modelCalls + 1
    /\ UNCHANGED invoked
    /\ UNCHANGED etlVars

\* lines 367-369: the model call raises (the request is sent, nothing is
\* recorded); the exception ends the turn
ModelRaise ==
    /\ pc = "model"
    /\ LET st == get_session_history(store, SessionId)
       IN /\ context' = template(limit(EnterHistory(st[SessionId], messages)))
          /\ store' = st
    /\ pc' = "failed"
    /\ UNCHANGED <<messages, response, callIdx, result, invoked, modelCalls,
                   produced, added, nextSeq>>
    /\ UNCHANGED etlVars

\* line 378: the for loop moves to the next call, or the while loop to the
\* next model call
NextCall ==
    /\ callIdx' = callIdx + 1
    /\ pc' = IF callIdx + 1 > Len(response[1].tool_calls) THEN "model" ELSE "tools"

\* lines 379-384 (with 436-437): the call's tool is registered and returns
ToolInvoke(output) ==
    /\ pc = "tools"
    /\ LET call == response[1].tool_calls[callIdx]
           tool == toolsHashGet(call.name)
           tool_message == ToolMessageChunk(output, call.id, nextSeq + 1)
       IN /\ tool # None
          /\ invoked' = Append(invoked, tool[1])
          /\ result' = RunCollect(result, tool_message.content)
          /\ messages' = CollectToolMessage(messages, tool_message)
          /\ produced' = Append(produced, tool_message)
    /\ nextSeq' = nextSeq + 1
    /\ NextCall
    /\ UNCHANGED <<store, response, context, modelCalls, added>>
    /\ UNCHANGED etlVars

\* line 381: the call's tool is registered and tool.invoke raises; nothing
\* catches it, the turn ends
ToolRaise ==
    /\ pc = "tools"
    /\ toolsHashGet(response[1].tool_calls[callIdx].name) # None
    /\ invoked' = Append(invoked, response[1].tool_calls[callIdx].name)
    /\ pc' = "failed"
    /\ UNCHANGED <<store, messages, response, callIdx, context, result, modelCalls,
                   produced, added, nextSeq>>
    /\ UNCHANGED etlVars

\* lines 379-380: no tool of that name; the call is passed over
ToolDrop ==
    /\ pc = "tools"
    /\ toolsHashGet(response[1].tool_calls[callIdx].name) = None
    /\ NextCall
    /\ UNCHANGED <<store, messages, response, context, result, invoked, modelCalls,
                   produced, added, nextSeq>>
    /\ UNCHANGED etlVars

SubmitQuery == \E text \in UserInputs : Submit(text, MaxMsgs)
ModelStep == \E stream \in Streams : ModelCall(stream, MaxMsgs)
ToolReturn == \E output \in ToolOutputs : ToolInvoke(output)

Next == SubmitQuery \/ ModelStep \/ ModelRaise \/ ToolReturn \/ ToolRaise \/ ToolDrop

Spec == Init /\ [][Next]_vars

SubmitQueryLong == \E text \in UserInputs : Submit(text, MaxMsgsLong)
ModelStepLong == \E stream \in StreamsLong : ModelCall(stream, MaxMsgsLong)
ToolReturnLong == \E output \in ToolOutputsLong : ToolInvoke(output)

NextLong ==
    SubmitQueryLong \/ ModelStepLong \/ ModelRaise \/ ToolReturnLong \/ ToolRaise \/ ToolDrop

SpecLong == Init /\ [][NextLong]_vars

(***************************************************************************)
(* Chat properties                                                         *)
(***************************************************************************)
\* The persisted history of the session (empty before its first reference).
History == IF SessionId \in DOMAIN store THEN store[SessionId] ELSE << >>

\* The agent is back at the top of its loop after a round of tool calls.
BackAtModel == pc = "model" /\ modelCalls >= 1

\* A requested call names a registered tool.
Registered(call) == call.name \in toolsHash

\* The last n entries of `produced`.
LastProduced(n) == SubSeq(produced, Len(produced) - n + 1, Len(produced))

\* C1 as stated: when the loop returns to the model after a response that
\* requested k tool calls, exactly k tool messages were collected, one per
\* requested call, in request order, each tagged with its call's id.
C1_OneMessagePerCall ==
    BackAtModel =>
        LET calls == response[1].tool_calls
        IN /\ Len(messages) = Len(calls)
           /\ \A k \in 1..Len(messages) :
                /\ messages[k].type = "tool"
                /\ messages[k].tool_call_id = Some(calls[k].id)

\* C1 amended: while the calls of a response are handled, and when the loop
\* returns to the model, the collected tool messages are exactly one per call
\* handled so far whose name is registered, in request order, each tagged with
\* its call's id, and they are the last messages yielded to the caller.
C1_OneMessagePerRegisteredCall ==
    (pc = "tools" \/ BackAtModel) =>
        LET calls == response[1].tool_calls
            handled == IF pc = "tools" THEN callIdx - 1 ELSE Len(calls)
            reg == SelectSeq(SubSeq(calls, 1, handled), Registered)
        IN /\ Len(messages) = Len(reg)
           /\ \A k \in 1..Len(messages) :
                /\ messages[k].type = "tool"
                /\ messages[k].tool_call_id = Some(reg[k].id)
           /\ LastProduced(Len(messages)) = messages

\* C1 witness: the loop is back at the model after a response that requested
\* two registered tools, with their two tool messages collected.
C1_Witness ==
    /\ BackAtModel
    /\ Len(response[1].tool_calls) = 2
    /\ \A k \in 1..2 : Registered(response[1].tool_calls[k])
    /\ Len(messages) = 2
    /\ messages[1].content # messages[2].content

\* The loop's own steps (everything but a new submission).
AgentStep == ModelStep \/ ModelRaise \/ ToolReturn \/ ToolRaise \/ ToolDrop

\* C3: when the first response of a turn carries no tool calls, the turn is
\* over after that one model call: no tool was invoked, no further step of the
\* loop is possible, and the text returned is that response's text.
C3_NoToolCallsEndsTurn ==
    (response # None /\ modelCalls = 1 /\ response[1].tool_calls = << >>) =>
        /\ pc = "done"
        /\ invoked = << >>
        /\ result = response[1].content
        /\ Len(produced) = 2
        /\ ~ENABLED AgentStep

\* C3 witness: a turn answered at once by a response streamed in several chunks.
C3_Witness ==
    /\ pc = "done"
    /\ modelCalls = 1
    /\ result = <<"a", "b">>
    /\ Len(History) >= 4

\* C7: at the end of a turn the displayed text is the final response's text.
C7_AnswerIsFinalResponse ==
    pc = "done" => result = response[1].content

\* C8: a requested call whose name is not registered is passed over: the step
\* invokes nothing, emits and collects no message, raises nothing, and moves on
\* to the next call of the response or, after the last one, back to the model.
C8_UnknownToolDropped ==
    [][ (pc = "tools" /\ ~Registered(response[1].tool_calls[callIdx])) =>
            /\ messages' = messages
            /\ invoked' = invoked
            /\ result' = result
            /\ produced' = produced
            /\ response' = response
            /\ store' = store
            /\ callIdx' = callIdx + 1
            /\ pc' = IF callIdx = Len(response[1].tool_calls) THEN "model" ELSE "tools"
      ]_vars

\* C8 witness: the loop is back at the model after a response that requested
\* an unregistered tool and then a registered one; only the second produced a
\* message.
C8_Witness ==
    /\ BackAtModel
    /\ Len(response[1].tool_calls) = 2
    /\ ~Registered(response[1].tool_calls[1])
    /\ Len(messages) = 1
    /\ messages[1].tool_call_id = Some(response[1].tool_calls[2].id)
    /\ invoked = <<response[1].tool_calls[2].name>>

\* A model call has just completed.
ModelCallCompleted == pc = "done" \/ (pc = "tools" /\ callIdx = 1)

\* C9: when a model call completes, the history ends with every message of the
\* turn so far (the user message, the responses, the tool messages) in order
\* of creation, no message is recorded twice, and no step removes or reorders a
\* recorded message or drops a session.
C9_HistoryComplete ==
    /\ [](ModelCallCompleted =>
            /\ Len(History) >= Len(produced)
            /\ SubSeq(History, Len(History) - Len(produced) + 1, Len(History)) = produced)
    /\ [](\A a, b \in 1..Len(History) : a < b => History[a].seq < History[b].seq)
    /\ [][ /\ DOMAIN store \subseteq DOMAIN store'
           /\ \A id \in DOMAIN store :
                /\ Len(store'[id]) >= Len(store[id])
                /\ SubSeq(store'[id], 1, Len(store[id])) = store[id]
       ]_vars

\* C9 witness: a turn with two rounds of tool calls ended; the history holds
\* its user message, three responses and the tool messages.
C9_Witness ==
    /\ pc = "done"
    /\ modelCalls = 3
    /\ Len(produced) >= 6
    /\ \E k \in 1..Len(History) : History[k].type = "tool"

\* C2: after a model call, the request that was sent is the system prompt
\* followed by the most recent 10 (or all, if fewer) of the stored history plus
\* the new input; with 11 or more of them the first message of the session is
\* not in the request, and the store holds every message ever added to it.
C2_WindowOfTen ==
    pc \in {"tools", "done"} =>
        LET h == History
            full == SubSeq(h, 1, Len(h) - 1)
            n == Len(context) - 1
        IN /\ context[1] = SystemMessage
           /\ n = IF Len(full) <= 10 THEN Len(full) ELSE 10
           /\ \A k \in 1..n : context[k + 1] = full[Len(full) - n + k]
           /\ Len(full) >= 11 => \A k \in 1..Len(context) : context[k] # h[1]
           /\ Len(h) = added
           /\ h[Len(h)] = response[1]

\* C2 witness: the 12th message was recorded after a request built from 11
\* messages, which left out the first one, and the store holds all 12.
C2_Witness ==
    /\ pc = "done"
    /\ Len(History) = 12
    /\ Len(context) = 11
    /\ context[2] = History[2]
    /\ History[1].type = "human"

\* C10: in every request sent to the model, each tool message comes after a
\* response, in the same request, that requested the call it answers.
C10_ToolMessageFollowsItsCall ==
    \A k \in 1..Len(context) :
        context[k].type = "tool" =>
            \E j \in 1..(k - 1) :
                /\ context[j].type = "ai"
                /\ \E c \in 1..Len(context[j].tool_calls) :
                     Some(context[j].tool_calls[c].id) = context[k].tool_call_id

====
